---- MODULE Spec2Model ----
\* Wash-trading detection script (Dashboard/assets/data/main.py) as a state
\* machine: the transaction table df is the input, the per-token graphs are
\* built row by row, then every strongly connected component of every token's
\* graph is put through the five detection rules, then the report is written.
EXTENDS Integers, Sequences, FiniteSets, TLC

VARIABLES df, pc, row, graphs, tok, todo, scc, detections, past_sccs, summary

vars == <<df, pc, row, graphs, tok, todo, scc, detections, past_sccs, summary>>

\* ---------------------------------------------------------------- bounds

\* Longest transaction table of the two-token specification Spec.
MaxTx == 3

\* Longest transaction table of the one-token, three-account specification.
MaxTxOne == 4

\* Longest transaction table of the specification with missing values.
MaxTxM == 3

\* ---------------------------------------------------------------- prices

\* A price is an exact decimal u + n * 10^-9 (whole units and nano-units), or
\* the float NaN that read_csv gives a missing price. Nano carries one more
\* decimal than round(val, 8) keeps, so that rounding is not the identity.
\* Sums are exact: the error a float sum accumulates is not modelled.
Nano == 1000000000

Price(u, n) == [nan |-> FALSE, u |-> u, n |-> n]

NaN == [nan |-> TRUE, u |-> 0, n |-> 0]

Zero == Price(0, 0)

\* float addition and subtraction; NaN absorbs.
Add(p, q) == IF p.nan \/ q.nan THEN NaN ELSE Price(p.u + q.u, p.n + q.n)

Sub(p, q) == IF p.nan \/ q.nan THEN NaN ELSE Price(p.u - q.u, p.n - q.n)

\* The same value with 0 <= n < Nano.
Norm(p) == IF p.nan THEN p ELSE Price(p.u + (p.n \div Nano), p.n % Nano)

\* A mutant of Round8: round(val), to whole units (the 8 left out).
Round0(p) ==
    IF p.nan THEN p ELSE
    LET q == Norm(p)
    IN  Price(q.u + (IF 2 * q.n > Nano \/ (2 * q.n = Nano /\ q.u % 2 = 1)
                     THEN 1 ELSE 0), 0)

\* round(val, 8): to the nearest multiple of 10 nano-units, a tie going to the
\* even multiple (Python rounds half to even); round(nan, 8) is nan.
Round8(p) ==
    IF p.nan THEN p ELSE
    LET q == Norm(p)
        t == q.n \div 10
        r == q.n % 10
        up == IF r > 5 \/ (r = 5 /\ t % 2 = 1) THEN 1 ELSE 0
    IN  Norm(Price(q.u, (t + up) * 10))

\* val != 0 on floats: nan != 0 is True.
NotZero(p) == p.nan \/ p.u # 0 \/ p.n # 0

\* ---------------------------------------------------------------- input

Tx(t, f, r, p, ts) ==
    [token_id |-> t, from_account |-> f, to_account |-> r, price |-> p,
     tx_timestamp |-> ts]

Ten == Price(10, 0)

Tiny == Price(0, 1)

\* Tables of 1..n rows over the given tokens, accounts and prices; the rows of
\* the log carry increasing timestamps (the position in the log).
Tables(n, tokens, accounts, prices) ==
    UNION { { [i \in 1..k |-> Tx(tk[i], fr[i], to[i], pr[i], i)] :
                tk \in [1..k -> tokens], fr \in [1..k -> accounts],
                to \in [1..k -> accounts], pr \in [1..k -> prices] } :
            k \in 1..n }

\* read_csv gives a missing from_account / to_account as the value nan.
Missing == "nan"

IsMissing(r) ==
    r.from_account = Missing \/ r.to_account = Missing \/ r.price.nan

\* ---------------------------------------------------------------- graphs

EmptyGraph == [nodes |-> {}, edges |-> {}]

Edge(r) ==
    [from |-> r.from_account, to |-> r.to_account,
     timestamp |-> r.tx_timestamp, price |-> r.price]

\* A mutant of AddEdge: a multigraph's add_edge, keeping parallel edges.
AddEdgeMulti(G, r) ==
    [nodes |-> G.nodes \cup {r.from_account, r.to_account},
     edges |-> G.edges \cup {Edge(r)}]

\* nx.DiGraph.add_edge(u, v, timestamp=, price=): a DiGraph holds at most one
\* edge u -> v; adding it again overwrites the edge's attributes.
AddEdge(G, r) ==
    [nodes |-> G.nodes \cup {r.from_account, r.to_account},
     edges |-> { e \in G.edges :
                   ~(e.from = r.from_account /\ e.to = r.to_account) }
               \cup {Edge(r)}]

\* graphs is the dict token_id -> DiGraph in insertion order: a sequence of
\* [token_id, G] with no token twice.
HasToken(gs, t) == \E k \in 1..Len(gs) : gs[k].token_id = t

\* One iteration of the loop of STEP 1.
AddRow(gs, r) ==
    LET gs1 == IF HasToken(gs, r.token_id) THEN gs
               ELSE Append(gs, [token_id |-> r.token_id, G |-> EmptyGraph])
    IN  [k \in 1..Len(gs1) |->
            IF gs1[k].token_id = r.token_id
            THEN [token_id |-> r.token_id, G |-> AddEdge(gs1[k].G, r)]
            ELSE gs1[k]]

\* The whole loop of STEP 1 on a table.
RECURSIVE BuildGraphs(_)
BuildGraphs(rows) ==
    IF rows = <<>> THEN <<>>
    ELSE AddRow(BuildGraphs(SubSeq(rows, 1, Len(rows) - 1)), rows[Len(rows)])

\* ---------------------------------------------------------------- components

\* The nodes reachable from S along the edges of G (S included).
RECURSIVE Reach(_, _)
Reach(G, S) ==
    LET S1 == S \cup { e.to : e \in { x \in G.edges : x.from \in S } }
    IN  IF S1 = S THEN S ELSE Reach(G, S1)

SccOf(G, n) ==
    { m \in G.nodes : m \in Reach(G, {n}) /\ n \in Reach(G, {m}) }

\* nx.strongly_connected_components(G): the classes of mutual reachability.
\* The order in which the generator yields them is left open.
StronglyConnectedComponents(G) == { SccOf(G, n) : n \in G.nodes }

\* G.subgraph(scc): the graph induced on the component.
Subgraph(G, c) ==
    [nodes |-> G.nodes \cap c,
     edges |-> { e \in G.edges : e.from \in c /\ e.to \in c }]

HasEdge(G, u, v) == \E e \in G.edges : e.from = u /\ e.to = v

\* Every sequence that lists the elements of S once each: the orders in which
\* a Python set, or a subgraph's node view, may be iterated.
Enumerations(S) ==
    { s \in [1..Cardinality(S) -> S] : \A x \in S : \E i \in DOMAIN s : s[i] = x }

\* ---------------------------------------------------------------- dicts

\* A defaultdict is a function on the keys inserted so far.
EmptyDict == [k \in {} |-> Zero]

Get(d, k, default) == IF k \in DOMAIN d THEN d[k] ELSE default

Put(d, k, v) == [x \in DOMAIN d \cup {k} |-> IF x = k THEN v ELSE d[x]]

\* The distinct values of a sequence in the order of their first occurrence:
\* the key order of a dict filled in that order.
RECURSIVE FirstSeen(_)
FirstSeen(s) ==
    IF s = <<>> THEN <<>>
    ELSE LET front == FirstSeen(SubSeq(s, 1, Len(s) - 1))
             x == s[Len(s)]
         IN  IF \E i \in DOMAIN front : front[i] = x THEN front
             ELSE Append(front, x)

\* ---------------------------------------------------------------- rules

\* A mutant of SelfTradeNodes: the has_edge test dropped.
SelfTradeNodesAll(G, c) == Subgraph(G, c).nodes

\* Rule 1: the nodes of subG that have an edge to themselves.
SelfTradeNodes(G, c) ==
    LET subG == Subgraph(G, c) IN { n \in subG.nodes : HasEdge(subG, n, n) }

\* A mutant of TotalGains: only the transfers inside the component.
TotalGainsInternal(table, token_id, c) ==
    SelectSeq(table, LAMBDA r : r.token_id = token_id
                                /\ r.from_account \in c /\ r.to_account \in c)

\* total_gains: the rows of the token whose sender or receiver is in the
\* component, in table order.
TotalGains(table, token_id, c) ==
    SelectSeq(table, LAMBDA r : r.token_id = token_id
                                /\ (r.from_account \in c \/ r.to_account \in c))

\* Rule 2: balances after the loop over total_gains.
RECURSIVE Balances(_)
Balances(rows) ==
    IF rows = <<>> THEN EmptyDict
    ELSE LET b0 == Balances(SubSeq(rows, 1, Len(rows) - 1))
             r == rows[Len(rows)]
             b1 == Put(b0, r.from_account,
                       Sub(Get(b0, r.from_account, Zero), r.price))
         IN  Put(b1, r.to_account, Add(Get(b1, r.to_account, Zero), r.price))

NonzeroAccounts(balances) ==
    { acc \in DOMAIN balances : NotZero(Round8(balances[acc])) }

\* Whether rule 2 appends a finding for the component.
IsZeroRisk(table, token_id, c) ==
    NonzeroAccounts(Balances(TotalGains(table, token_id, c))) = {}

\* Rule 3: funder_counts after the loop over total_gains.
RECURSIVE FunderCounts(_)
FunderCounts(rows) ==
    IF rows = <<>> THEN [k \in {} |-> {}]
    ELSE LET f0 == FunderCounts(SubSeq(rows, 1, Len(rows) - 1))
             r == rows[Len(rows)]
         IN  Put(f0, r.from_account,
                 Get(f0, r.from_account, {}) \cup {r.to_account})

\* A mutant of FunderThreshold: one member among the targets is enough.
FunderThresholdOne == 2 - 1

\* The least number of component members among a funder's targets (line 64).
FunderThreshold == 2

\* The findings rule 3 appends, in the key order of funder_counts.
CommonFunderFindings(table, token_id, c) ==
    LET rows == TotalGains(table, token_id, c)
        fc == FunderCounts(rows)
        keys == FirstSeen([i \in DOMAIN rows |-> rows[i].from_account])
        hits == SelectSeq(keys,
                    LAMBDA f : Cardinality(fc[f] \cap c) >= FunderThreshold)
    IN  [i \in DOMAIN hits |-> <<token_id, hits[i], fc[hits[i]]>>]

\* Rule 4: receivers after the loop over total_gains.
RECURSIVE Receivers(_)
Receivers(rows) ==
    IF rows = <<>> THEN [k \in {} |-> 0]
    ELSE LET c0 == Receivers(SubSeq(rows, 1, Len(rows) - 1))
             r == rows[Len(rows)]
         IN  Put(c0, r.to_account, Get(c0, r.to_account, 0) + 1)

\* A mutant of TopReceiver: of the receivers with the highest count the last
\* inserted (an unstable or ascending sort).
TopReceiverLast(rows) ==
    LET cnt == Receivers(rows)
        keys == FirstSeen([i \in DOMAIN rows |-> rows[i].to_account])
        best == CHOOSE i \in DOMAIN keys :
                   /\ \A j \in DOMAIN keys : cnt[keys[j]] <= cnt[keys[i]]
                   /\ \A j \in (i + 1)..Len(keys) : cnt[keys[j]] < cnt[keys[i]]
    IN  keys[best]

\* sorted(receivers.items(), key=count, reverse=True)[0][0]: the sort is
\* stable, so of the receivers with the highest count the first inserted.
TopReceiver(rows) ==
    LET cnt == Receivers(rows)
        keys == FirstSeen([i \in DOMAIN rows |-> rows[i].to_account])
        best == CHOOSE i \in DOMAIN keys :
                   /\ \A j \in DOMAIN keys : cnt[keys[j]] <= cnt[keys[i]]
                   /\ \A j \in 1..(i - 1) : cnt[keys[j]] < cnt[keys[i]]
    IN  keys[best]

\* The findings rule 4 appends.
CommonExitFindings(table, token_id, c) ==
    LET rows == TotalGains(table, token_id, c)
    IN  IF rows # <<>> /\ TopReceiver(rows) \in c
        THEN << <<token_id, TopReceiver(rows)>> >>
        ELSE <<>>

\* A mutant of KeyInPastSccs: the key is scc_id of line 38, token included,
\* which no component handled earlier in the run shares.
KeyInPastSccsById(token_id, c, past) == <<token_id, c>> \in {}

\* Rule 5: key = frozenset(scc); key in past_sccs. The token is no part of
\* the key (scc_id of line 38 is computed and never used).
KeyInPastSccs(token_id, c, past) == c \in past

\* A mutant of Remember: the set is overwritten, not extended.
RememberOnly(past, c) == {c}

\* past_sccs.add(key).
Remember(past, c) == past \cup {c}

\* ---------------------------------------------------------------- state

NoDetections ==
    [self_trades |-> <<>>, zero_risk |-> <<>>, common_funder |-> <<>>,
     common_exit |-> <<>>, repeated_scc |-> <<>>]

Categories ==
    <<"self_trades", "zero_risk", "common_funder", "common_exit", "repeated_scc">>

InitState ==
    /\ pc = "build"
    /\ row = 1
    /\ graphs = <<>>
    /\ tok = 0
    /\ todo = {}
    /\ scc = {}
    /\ detections = NoDetections
    /\ past_sccs = {}
    /\ summary = <<>>

\* Two tokens, two accounts, a price below and a price above the 8 decimals.
Init ==
    /\ df \in Tables(MaxTx, {"T1", "T2"}, {"A", "B"}, {Tiny, Ten})
    /\ InitState

\* One token, three accounts (a funder outside a two-account cycle).
InitOne ==
    /\ df \in Tables(MaxTxOne, {"T3"}, {"F", "X", "Y"}, {Ten})
    /\ InitState

\* Tables in which a sender, a receiver or a price may be missing.
InitM ==
    /\ df \in Tables(MaxTxM, {"T1"}, {"A", Missing}, {Ten, NaN})
    /\ InitState

\* ---------------------------------------------------------------- steps

\* Lines 10-19: one row of the table.
BuildRow ==
    /\ pc = "build"
    /\ row <= Len(df)
    /\ graphs' = AddRow(graphs, df[row])
    /\ row' = row + 1
    /\ UNCHANGED <<df, pc, tok, todo, scc, detections, past_sccs, summary>>

\* Lines 22-30: the loop is over; empty detections, empty past_sccs.
InitDetections ==
    /\ pc = "build"
    /\ row > Len(df)
    /\ detections' = NoDetections
    /\ past_sccs' = {}
    /\ pc' = "loop"
    /\ UNCHANGED <<df, row, graphs, tok, todo, scc, summary>>

\* Lines 33-34: the next token's graph and its components.
NextToken ==
    /\ pc = "loop"
    /\ todo = {}
    /\ tok < Len(graphs)
    /\ tok' = tok + 1
    /\ todo' = StronglyConnectedComponents(graphs[tok + 1].G)
    /\ scc' = {}
    /\ UNCHANGED <<df, pc, row, graphs, detections, past_sccs, summary>>

\* Lines 36-38: the next component of the token, in whatever order.
NextScc ==
    /\ pc = "loop"
    /\ todo # {}
    /\ \E c \in todo :
          /\ scc' = c
          /\ todo' = todo \ {c}
    /\ pc' = "r1"
    /\ UNCHANGED <<df, row, graphs, tok, detections, past_sccs, summary>>

\* Lines 40-43.
SelfTrades ==
    /\ pc = "r1"
    /\ \E order \in Enumerations(SelfTradeNodes(graphs[tok].G, scc)) :
          detections' =
            [detections EXCEPT !.self_trades =
                @ \o [i \in DOMAIN order |-> <<graphs[tok].token_id, order[i]>>]]
    /\ pc' = "r2"
    /\ UNCHANGED <<df, row, graphs, tok, todo, scc, past_sccs, summary>>

\* Lines 45-56. list(scc) lists the members in the iteration order of the
\* set; the finding holds the set it lists (here and in the other rules).
ZeroRisk ==
    /\ pc = "r2"
    /\ detections' =
         IF IsZeroRisk(df, graphs[tok].token_id, scc)
         THEN [detections EXCEPT !.zero_risk =
                  Append(@, <<graphs[tok].token_id, scc>>)]
         ELSE detections
    /\ pc' = "r3"
    /\ UNCHANGED <<df, row, graphs, tok, todo, scc, past_sccs, summary>>

\* Lines 58-65.
CommonFunder ==
    /\ pc = "r3"
    /\ detections' =
         [detections EXCEPT !.common_funder =
             @ \o CommonFunderFindings(df, graphs[tok].token_id, scc)]
    /\ pc' = "r4"
    /\ UNCHANGED <<df, row, graphs, tok, todo, scc, past_sccs, summary>>

\* Lines 67-74.
CommonExit ==
    /\ pc = "r4"
    /\ detections' =
         [detections EXCEPT !.common_exit =
             @ \o CommonExitFindings(df, graphs[tok].token_id, scc)]
    /\ pc' = "r5"
    /\ UNCHANGED <<df, row, graphs, tok, todo, scc, past_sccs, summary>>

\* Lines 76-81.
RepeatedScc ==
    /\ pc = "r5"
    /\ IF KeyInPastSccs(graphs[tok].token_id, scc, past_sccs)
       THEN /\ detections' =
                 [detections EXCEPT !.repeated_scc =
                     Append(@, <<graphs[tok].token_id, scc>>)]
            /\ past_sccs' = past_sccs
       ELSE /\ past_sccs' = Remember(past_sccs, scc)
            /\ detections' = detections
    /\ pc' = "loop"
    /\ UNCHANGED <<df, row, graphs, tok, todo, scc, summary>>

\* Lines 83-90: every graph done; the summary line and the file per category.
Report ==
    /\ pc = "loop"
    /\ todo = {}
    /\ tok = Len(graphs)
    /\ summary' = [i \in DOMAIN Categories |->
                      <<Categories[i], Len(detections[Categories[i]])>>]
    /\ pc' = "done"
    /\ UNCHANGED <<df, row, graphs, tok, todo, scc, detections, past_sccs>>

Next ==
    \/ BuildRow
    \/ InitDetections
    \/ NextToken
    \/ NextScc
    \/ SelfTrades
    \/ ZeroRisk
    \/ CommonFunder
    \/ CommonExit
    \/ RepeatedScc
    \/ Report

Spec == Init /\ [][Next]_vars

SpecOne == InitOne /\ [][Next]_vars

SpecM == InitM /\ [][Next]_vars

\* ---------------------------------------------------------------- claims

Count(s, x) == Cardinality({ i \in DOMAIN s : s[i] = x })

ToSet(s) == { s[i] : i \in DOMAIN s }

\* The components of the k-th graph.
Components(k) == StronglyConnectedComponents(graphs[k].G)

\* The rows (positions in table) of token t that touch component c.
Touching(table, t, c) ==
    { i \in DOMAIN table :
        /\ table[i].token_id = t
        /\ (table[i].from_account \in c \/ table[i].to_account \in c) }

\* The accounts that appear as sender or receiver in those rows.
TouchAccounts(table, t, c) ==
    UNION { {table[i].from_account, table[i].to_account} :
              i \in Touching(table, t, c) }

\* Incoming minus outgoing prices of account a over the rows I.
RECURSIVE NetBalance(_, _, _)
NetBalance(table, I, a) ==
    IF I = {} THEN Zero
    ELSE LET i == CHOOSE x \in I : TRUE
             r == table[i]
             in  == IF r.to_account = a THEN r.price ELSE Zero
             out == IF r.from_account = a THEN r.price ELSE Zero
         IN  Add(NetBalance(table, I \ {i}, a), Sub(in, out))

ExactlyZero(p) == ~NotZero(Norm(p))

ZeroTo8Decimals(p) == ~NotZero(Round8(p))

Done == pc = "done"

\* C6: at the end of the run, (asset, n) is in the Self-Trade findings exactly
\* once if the asset has a transaction with sender = receiver = n, however
\* many, and every Self-Trade finding is of such an account.
C6_SelfTradeOnce ==
    Done =>
      /\ \A i \in DOMAIN df :
           df[i].from_account = df[i].to_account =>
             Count(detections.self_trades,
                   <<df[i].token_id, df[i].from_account>>) = 1
      /\ \A k \in DOMAIN detections.self_trades :
           \E i \in DOMAIN df :
              /\ df[i].from_account = df[i].to_account
              /\ detections.self_trades[k] = <<df[i].token_id, df[i].from_account>>

\* A run that ended on a table with two self-transfers of one account in one
\* asset, and a row of that asset between other accounts.
C6_Witness ==
    /\ Done
    /\ \E i, j \in DOMAIN df :
          /\ i # j
          /\ df[i].from_account = df[i].to_account
          /\ df[j] = [df[i] EXCEPT !.tx_timestamp = j, !.price = df[j].price]
          /\ \E m \in DOMAIN df :
                /\ df[m].token_id = df[i].token_id
                /\ df[m].from_account # df[i].from_account
                /\ df[m].to_account # df[i].from_account

\* C3 (as amended): for every (asset, component), the Zero-Risk findings hold
\* (asset, component) exactly once if every account of the transactions that
\* touch the component has a net balance that is zero after rounding to 8
\* decimals, and not at all otherwise.
C3_ZeroRiskRounded ==
    Done =>
      /\ \A k \in DOMAIN graphs : \A c \in Components(k) :
           LET t == graphs[k].token_id
               I == Touching(df, t, c)
           IN  Count(detections.zero_risk, <<t, c>>) =
                 IF \A a \in TouchAccounts(df, t, c) :
                       ZeroTo8Decimals(NetBalance(df, I, a))
                 THEN 1 ELSE 0
      /\ \A f \in ToSet(detections.zero_risk) :
           \E k \in DOMAIN graphs :
              f[1] = graphs[k].token_id /\ f[2] \in Components(k)

\* C3 as claimed: ... has net balance zero; a nonzero balance, no finding.
C3_ZeroRiskExact ==
    Done =>
      \A k \in DOMAIN graphs : \A c \in Components(k) :
         LET t == graphs[k].token_id
             I == Touching(df, t, c)
         IN  Count(detections.zero_risk, <<t, c>>) =
               IF \A a \in TouchAccounts(df, t, c) :
                     ExactlyZero(NetBalance(df, I, a))
               THEN 1 ELSE 0

\* A Zero-Risk finding of a component with a counterparty outside it, and in
\* the same run a component with a balance that rounds to nonzero.
C3_Witness ==
    /\ Done
    /\ \E f \in ToSet(detections.zero_risk) :
          TouchAccounts(df, f[1], f[2]) \ f[2] # {}
    /\ \E k \in DOMAIN graphs : \E c \in Components(k) :
          <<graphs[k].token_id, c>> \notin ToSet(detections.zero_risk)

\* The Zero-Risk findings of a whole run on a table.
RunZeroRisk(table) ==
    LET gs == BuildGraphs(table)
    IN  UNION { { <<gs[k].token_id, c>> :
                    c \in { x \in StronglyConnectedComponents(gs[k].G) :
                              IsZeroRisk(table, gs[k].token_id, x) } } :
                k \in DOMAIN gs }

\* The table with the price of row i changed by d.
Perturb(table, i, d) == [table EXCEPT ![i].price = Add(@, d)]

\* Price changes: one nano-unit (below the 8 decimals), 11 nano-units (just
\* above a unit of the 8th decimal), a whole unit; up and down.
Deltas ==
    { Price(0, 1), Price(0, -1), Price(0, 11), Price(0, -11),
      Price(1, 0), Price(-1, 0) }

\* More than 10^-8 in magnitude.
Above8Decimals(d) ==
    LET q == Norm(d) IN ~(q.u = 0 /\ q.n <= 10) /\ ~(q.u = -1 /\ q.n >= Nano - 10)

\* C4 (as amended): a cluster reported Zero-Risk is no longer reported when
\* the price of one transaction that touches it and whose sender differs from
\* its receiver is changed by more than 10^-8.
C4_PerturbTransfer ==
    Done =>
      /\ ToSet(detections.zero_risk) = RunZeroRisk(df)
      /\ \A f \in ToSet(detections.zero_risk) :
           \A i \in Touching(df, f[1], f[2]) :
              df[i].from_account # df[i].to_account =>
                \A d \in { x \in Deltas : Above8Decimals(x) } :
                   f \notin RunZeroRisk(Perturb(df, i, d))

\* C4 as claimed: any touching transaction, a self-transfer included, and any
\* nonzero change.
C4_PerturbAny ==
    Done =>
      \A f \in ToSet(detections.zero_risk) :
         \A i \in Touching(df, f[1], f[2]) :
            \A d \in Deltas : f \notin RunZeroRisk(Perturb(df, i, d))

\* A Zero-Risk finding of a cluster touched by a transfer between two
\* different accounts.
C4_Witness ==
    /\ Done
    /\ \E f \in ToSet(detections.zero_risk) :
          \E i \in Touching(df, f[1], f[2]) :
             df[i].from_account # df[i].to_account

\* The distinct receivers sender f has sent to in the rows of asset t that
\* touch component c.
ReceiverSet(t, c, f) ==
    { df[i].to_account : i \in { x \in Touching(df, t, c) : df[x].from_account = f } }

Senders(t, c) == { df[i].from_account : i \in Touching(df, t, c) }

Qualifies(t, c, f) == Cardinality(ReceiverSet(t, c, f) \cap c) >= 2

\* What the Common-Funder step of component scc of asset t appends.
FunderStep(t, c) ==
    LET old == detections.common_funder
        all == detections'.common_funder
        new == SubSeq(all, Len(old) + 1, Len(all))
    IN  /\ Len(all) >= Len(old)
        /\ SubSeq(all, 1, Len(old)) = old
        /\ \A f \in Senders(t, c) :
              Count(new, <<t, f, ReceiverSet(t, c, f)>>) =
                 IF Qualifies(t, c, f) THEN 1 ELSE 0
        /\ Len(new) = Cardinality({ f \in Senders(t, c) : Qualifies(t, c, f) })

\* Every (graph, component, sender) whose sender qualifies.
QualifyingFunders ==
    UNION { UNION { { <<k, c, f>> :
                        f \in { x \in Senders(graphs[k].token_id, c) :
                                  Qualifies(graphs[k].token_id, c, x) } } :
                    c \in Components(k) } :
            k \in DOMAIN graphs }

\* C5: the Common-Funder step of an (asset, component) appends (asset, f,
\* receiver set of f) exactly once for every sender f whose receiver set holds
\* at least 2 members of the component, and nothing else (so nothing for a
\* sender with exactly 1); and at the end of the run every (asset, component)
\* has had its step.
C5_CommonFunder ==
    /\ [][pc = "r3" => FunderStep(graphs[tok].token_id, scc)]_vars
    /\ [](Done => Len(detections.common_funder) = Cardinality(QualifyingFunders))

\* The run of F -> X, F -> Y, X -> Y, Y -> X: the funder outside the cycle is
\* reported, and a sender with one member among its receivers is not.
C5_Witness ==
    /\ Done
    /\ {"X", "Y"} \in Components(1)
    /\ <<"T3", "F", {"X", "Y"}>> \in ToSet(detections.common_funder)
    /\ \E f \in Senders("T3", {"X", "Y"}) :
          Cardinality(ReceiverSet("T3", {"X", "Y"}, f) \cap {"X", "Y"}) = 1

\* Whether component c of the k-th graph is the account set of a component of
\* a graph handled before it.
SeenInEarlierAsset(k, c) == \E j \in 1..(k - 1) : c \in Components(j)

\* Whether a component of the same asset and the same account set was handled
\* before component c of the k-th graph: the components of one graph are
\* disjoint, so only an earlier graph of the same asset could hold it.
SameIdentityEarlier(k, c) ==
    \E j \in 1..(k - 1) :
       graphs[j].token_id = graphs[k].token_id /\ c \in Components(j)

ScenarioT1 == << Tx("T1", "A", "B", Ten, 1), Tx("T1", "B", "A", Ten, 2) >>

\* C7 (as amended): the run on asset T1 with A -> B at 10 and B -> A at 10
\* gives the Zero-Risk finding of {A, B}, no Self-Trade finding, and the
\* Common-Exit finding (T1, B): B is the first of the two tied receivers.
C7_ScenarioWithExit ==
    (Done /\ df = ScenarioT1) =>
      /\ detections.zero_risk = << <<"T1", {"A", "B"}>> >>
      /\ detections.self_trades = <<>>
      /\ detections.common_exit = << <<"T1", "B">> >>

\* C7 as claimed: ... and no Common-Exit finding.
C7_ScenarioNoExit ==
    (Done /\ df = ScenarioT1) =>
      /\ detections.zero_risk = << <<"T1", {"A", "B"}>> >>
      /\ detections.self_trades = <<>>
      /\ detections.common_exit = <<>>

C7_Witness == Done /\ df = ScenarioT1

\* C8 as claimed: with a record that misses its sender, receiver or price, the
\* run stops in the load and graph-building step, so that no finding is ever
\* appended to any category and no report is written.
C8_AbortOnMissing ==
    (\E i \in DOMAIN df : IsMissing(df[i])) =>
      /\ detections = NoDetections
      /\ summary = <<>>
      /\ ~Done

\* C2 as claimed: once the graphs are built, every asset's graph has as many
\* edges as the table has transactions of that asset.
C2_EdgePerTransaction ==
    pc # "build" =>
      \A k \in DOMAIN graphs :
         Cardinality(graphs[k].G.edges) =
           Cardinality({ i \in DOMAIN df : df[i].token_id = graphs[k].token_id })

Reorderings(n) ==
    { p \in [1..n -> 1..n] : \A i, j \in 1..n : p[i] = p[j] => i = j }

\* The per-asset graphs as a mapping, the insertion order of the dict dropped.
GraphMap(gs) == { gs[k] : k \in DOMAIN gs }

\* C9 as claimed: the graphs built from any reordering of the table equal the
\* graphs built from the table, in nodes, edges and edge attributes.
C9_OrderIndependent ==
    pc # "build" =>
      \A p \in Reorderings(Len(df)) :
         GraphMap(BuildGraphs([i \in DOMAIN df |-> df[p[i]]])) = GraphMap(graphs)

\* C10: SeenClusters is empty when the analysis starts; no step removes an
\* element; only the Repeated-Cluster step changes it, and that step either
\* appends one finding for the component and leaves the set alone (the
\* component's account set is in it) or inserts exactly the component's
\* account set and appends no finding.
C10_SeenClustersFrame ==
    /\ []((pc = "build" \/ (pc = "loop" /\ tok = 0)) => past_sccs = {})
    /\ [][/\ past_sccs \subseteq past_sccs'
          /\ pc # "r5" => past_sccs' = past_sccs
          /\ pc = "r5" =>
               IF scc \in past_sccs
               THEN /\ past_sccs' = past_sccs
                    /\ detections'.repeated_scc =
                         Append(detections.repeated_scc,
                                <<graphs[tok].token_id, scc>>)
               ELSE /\ past_sccs' = past_sccs \cup {scc}
                    /\ detections'.repeated_scc = detections.repeated_scc]_vars

\* Both branches of the step have been taken.
C10_Witness ==
    /\ Cardinality(past_sccs) >= 2
    /\ detections.repeated_scc # <<>>

====
